---- MODULE Spec2Model ----
(***************************************************************************)
(* Chat backend of the MINE-DD dashboard.                                  *)
(*                                                                         *)
(*   chat-backend/main.py         the HTTP session endpoints and the       *)
(*                                ChatBackend with its History Buffer      *)
(*   chat-backend/backend_llms.py the routed decision graph (router,        *)
(*                                reformulation, CSV agent, general chat)  *)
(*   chat-backend/super_csv_agent.py the Executor of generated code        *)
(*                                                                         *)
(* Spec        : the HTTP endpoints of main.py over the session registry.  *)
(* HistorySpec : ChatBackend.ask of main.py called repeatedly.             *)
(* GraphSpec   : ChatBackend.ask of backend_llms.py through the compiled   *)
(*               graph, and the node methods called on their own.          *)
(* ExecSpec    : _execute_code of super_csv_agent.py called repeatedly.    *)
(* TranslateSpec : _translate_to_code of super_csv_agent.py called         *)
(*               repeatedly.                                               *)
(***************************************************************************)
EXTENDS Integers, Sequences, FiniteSets, TLC

VARIABLES
    chat_sessions,  \* main.py:114  session id -> list of response records
    history,        \* main.py:62   chat_backend.history, list of (question, answer)
    owner,          \* ghost: owner[i] is the session whose post produced history[i]
    asked,          \* ghost: every (question, answer) pair ever appended, in order
    resp,           \* the last call and what it answered
    state,          \* backend_llms.py: the ConversationState of the call in progress
    pc,             \* the node about to run, or "idle" between calls
    mode,           \* "graph": run by the compiled graph; "direct": a node called on its own
    ran,            \* the nodes the call has run so far, in order
    gw,             \* the Gateway / CSV agent invocations of the call, in order
    result,         \* how the last call ended
    df,             \* super_csv_agent.py:12,139  self.df of the object of each agent class
    pd,             \* super_csv_agent.py:1  the pandas module of the process
    xlog,           \* ghost: the _execute_code calls made, what each found and how it ended
    tlog            \* ghost: the model outputs translated and the code returned for each

hvars == <<chat_sessions, history, owner, asked, resp>>
gvars == <<state, pc, mode, ran, gw, result>>
xvars == <<df, pd, xlog, tlog>>
vars == <<chat_sessions, history, owner, asked, resp, state, pc, mode, ran, gw, result,
          df, pd, xlog, tlog>>

-----------------------------------------------------------------------------
(* Bounds of the model.                                                    *)

MaxAsks == 7        \* direct ChatBackend.ask calls in HistorySpec
MaxSends == 2       \* answered posts in Spec
MaxRecords == 5     \* records of one session in Spec
MaxMsgs == 2        \* messages of a state handed to a node called on its own
MaxCalls == 3       \* _execute_code calls in ExecSpec
MaxTranslations == 2 \* _translate_to_code calls in TranslateSpec

SessionIds == {"s1", "s2"}
Questions == {"q1", "q2"}
Answers == {"a1", "a2"}     \* response.text().strip() of the model
PostAnswers == {"a1"}       \* the same, for the posts of Spec
Raise == "raise"            \* the model call raised
NoSession == "-"            \* a call made outside any session

-----------------------------------------------------------------------------
(* main.py: ChatBackend                                                    *)

HistoryCapacity == 5

Last(s) == s[Len(s)]

\* The last n elements of s (all of s when it has fewer).
LastN(s, n) == IF Len(s) <= n THEN s ELSE SubSeq(s, Len(s) - n + 1, Len(s))

RECURSIVE RenderPairs(_)
RenderPairs(h) ==
    IF h = <<>> THEN <<>>
    ELSE <<<<"User", h[1][1]>>, <<"AI", h[1][2]>>>> \o RenderPairs(Tail(h))

\* Mutant of RenderContext: one line for each pair.
RenderContextOneLine(h) ==
    IF h = <<>> THEN <<<<"The conversation has just begun.", "">>>>
    ELSE [i \in 1..Len(h) |-> <<"User", h[i][1]>>]

\* The lines of the "Conversation History" block of the prompt:
\* "\n".join(f"User: {q}\nAI: {a}" ...) or the fixed opening line.
RenderContext(h) ==
    IF h = <<>> THEN <<<<"The conversation has just begun.", "">>>>
    ELSE RenderPairs(h)

\* Mutant of DropEarliest: pop() for pop(0), the newest pair is dropped.
DropLatest(s) == SubSeq(s, 1, Len(s) - 1)

\* history.pop(0)
DropEarliest(s) == Tail(s)

\* history.append(...) followed by the capacity check and pop(0), applied to
\* the History Buffer or to a list kept in step with it.
AppendBounded(s, x) ==
    LET t == Append(s, x)
    IN  IF Len(t) > HistoryCapacity THEN DropEarliest(t) ELSE t

\* ChatBackend.ask(question) when chain.invoke answers `answer`, on behalf of
\* session `sid`.
AskReturns(sid, question, answer) ==
    /\ history' = AppendBounded(history, <<question, answer>>)
    /\ owner' = AppendBounded(owner, sid)
    /\ asked' = Append(asked, <<question, answer>>)

\* ChatBackend.ask(question) when chain.invoke raises: nothing is appended.
AskRaises ==
    UNCHANGED <<history, owner, asked>>

-----------------------------------------------------------------------------
(* main.py: the session registry and its endpoints                         *)

WelcomeText == "Hello! I'm your AI assistant. How can I help you today?"
Welcome == [type |-> "bot", content |-> WelcomeText]

\* Mutant of NewSession: the welcome record is put in twice.
NewSessionTwice == <<Welcome, Welcome>>

\* messages of the ChatSession a first access creates
NewSession == <<Welcome>>

Record(type, content) == [type |-> type, content |-> content]

\* Mutant of Ensure: the session is created anew at every access.
EnsureAnew(cs, sid) ==
    [x \in DOMAIN cs \cup {sid} |-> IF x = sid THEN NewSession ELSE cs[x]]

\* chat_sessions with `sid` created when it is absent.
Ensure(cs, sid) ==
    IF sid \in DOMAIN cs THEN cs
    ELSE [x \in DOMAIN cs \cup {sid} |-> IF x = sid THEN NewSession ELSE cs[x]]

\* Mutant of Remove: the session's records are emptied, its entry stays.
Emptied(cs, sid) == [cs EXCEPT ![sid] = <<>>]

\* del chat_sessions[sid]
Remove(cs, sid) == [x \in DOMAIN cs \ {sid} |-> cs[x]]

Response(op, sid, status, body, prompt, ctxOwner) ==
    [op |-> op, sid |-> sid, status |-> status, body |-> body,
     prompt |-> prompt, ctxOwner |-> ctxOwner]

NoPrompt == [context |-> <<>>, question |-> ""]

Prompt(question) == [context |-> RenderContext(history), question |-> question]

\* The status of a post whose model call raised: the except clause of
\* send_message.
FailureStatus == 500

\* Mutant of send_message: a post whose model call raised is rolled back.
send_message_rolled_back(sid, content, out) ==
    LET withUser == [Ensure(chat_sessions, sid) EXCEPT
                        ![sid] = Append(@, Record("user", content))]
    IN  /\ Len(withUser[sid]) + 1 <= MaxRecords
        /\ Len(asked) < MaxSends
        /\ IF out = Raise
           THEN /\ AskRaises
                /\ chat_sessions' = chat_sessions
                /\ resp' = Response("send_message", sid, FailureStatus,
                                    "Error processing message", Prompt(content), owner)
           ELSE /\ AskReturns(sid, content, out)
                /\ chat_sessions' = [withUser EXCEPT
                                        ![sid] = Append(@, Record("bot", out))]
                /\ resp' = Response("send_message", sid, 200,
                                    Record("bot", out), Prompt(content), owner)
        /\ UNCHANGED <<gvars, xvars>>

\* POST /chat/{session_id}/message
send_message(sid, content, out) ==
    LET withUser == [Ensure(chat_sessions, sid) EXCEPT
                        ![sid] = Append(@, Record("user", content))]
    IN  /\ Len(withUser[sid]) + 1 <= MaxRecords
        /\ Len(asked) < MaxSends
        /\ IF out = Raise
           THEN /\ AskRaises
                /\ chat_sessions' = withUser
                /\ resp' = Response("send_message", sid, FailureStatus,
                                    "Error processing message", Prompt(content), owner)
           ELSE /\ AskReturns(sid, content, out)
                /\ chat_sessions' = [withUser EXCEPT
                                        ![sid] = Append(@, Record("bot", out))]
                /\ resp' = Response("send_message", sid, 200,
                                    Record("bot", out), Prompt(content), owner)
        /\ UNCHANGED <<gvars, xvars>>

\* GET /chat/{session_id}/messages
get_messages(sid) ==
    /\ chat_sessions' = Ensure(chat_sessions, sid)
    /\ resp' = Response("get_messages", sid, 200, Ensure(chat_sessions, sid)[sid],
                        NoPrompt, <<>>)
    /\ UNCHANGED <<history, owner, asked>>
    /\ UNCHANGED <<gvars, xvars>>

\* Mutant of clear_session: the History Buffer is emptied with the session.
clear_session_and_history(sid) ==
    /\ IF sid \in DOMAIN chat_sessions
       THEN /\ chat_sessions' = Remove(chat_sessions, sid)
            /\ history' = <<>>
            /\ owner' = <<>>
            /\ resp' = Response("clear_session", sid, 200, "cleared", NoPrompt, <<>>)
       ELSE /\ chat_sessions' = chat_sessions
            /\ UNCHANGED <<history, owner>>
            /\ resp' = Response("clear_session", sid, 404, "Session not found",
                                NoPrompt, <<>>)
    /\ UNCHANGED asked
    /\ UNCHANGED <<gvars, xvars>>

\* DELETE /chat/{session_id}
clear_session(sid) ==
    /\ IF sid \in DOMAIN chat_sessions
       THEN /\ chat_sessions' = Remove(chat_sessions, sid)
            /\ resp' = Response("clear_session", sid, 200, "cleared", NoPrompt, <<>>)
       ELSE /\ chat_sessions' = chat_sessions
            /\ resp' = Response("clear_session", sid, 404, "Session not found",
                                NoPrompt, <<>>)
    /\ UNCHANGED <<history, owner, asked>>
    /\ UNCHANGED <<gvars, xvars>>

\* GET /chat/sessions
get_sessions ==
    /\ resp' = Response("get_sessions", NoSession, 200,
                        [active_sessions |-> Cardinality(DOMAIN chat_sessions),
                         sessions |-> DOMAIN chat_sessions],
                        NoPrompt, <<>>)
    /\ UNCHANGED <<chat_sessions, history, owner, asked>>
    /\ UNCHANGED <<gvars, xvars>>

\* ChatBackend.ask called on the backend object.
ask(question, out) ==
    /\ Len(asked) < MaxAsks
    /\ IF out = Raise
       THEN /\ AskRaises
            /\ resp' = Response("ask", NoSession, 0, Raise, Prompt(question), owner)
       ELSE /\ AskReturns(NoSession, question, out)
            /\ resp' = Response("ask", NoSession, 0, out, Prompt(question), owner)
    /\ UNCHANGED chat_sessions
    /\ UNCHANGED <<gvars, xvars>>

-----------------------------------------------------------------------------
(* Text.  A text is the sequence of its characters, so that lower(),       *)
(* strip() and the substring test `kw in message` are computed.            *)

UpperLetters == <<"A", "B", "C", "D", "E", "F", "G", "H", "I", "J", "K", "L", "M", "N", "O", "P", "Q", "R", "S", "T", "U", "V", "W", "X", "Y", "Z">>
LowerLetters == <<"a", "b", "c", "d", "e", "f", "g", "h", "i", "j", "k", "l", "m", "n", "o", "p", "q", "r", "s", "t", "u", "v", "w", "x", "y", "z">>

LowerChar(c) ==
    IF \E i \in 1..Len(UpperLetters) : UpperLetters[i] = c
    THEN LowerLetters[CHOOSE i \in 1..Len(UpperLetters) : UpperLetters[i] = c]
    ELSE c

\* str.lower()
Lower(t) == [i \in 1..Len(t) |-> LowerChar(t[i])]

\* `kw in t` on strings
Contains(t, kw) ==
    \E i \in 0..(Len(t) - Len(kw)) : SubSeq(t, i + 1, i + Len(kw)) = kw

Whitespace == {" ", "\n", "\t"}

RECURSIVE LStrip(_)
LStrip(t) == IF t # <<>> /\ Head(t) \in Whitespace THEN LStrip(Tail(t)) ELSE t

RECURSIVE RStrip(_)
RStrip(t) ==
    IF t # <<>> /\ t[Len(t)] \in Whitespace THEN RStrip(SubSeq(t, 1, Len(t) - 1)) ELSE t

\* str.strip()
Strip(t) == RStrip(LStrip(t))

\* The texts of the model.
TxtEmpty == <<>>
TxtHi == <<"H", "i">>
TxtSum == <<"S", "U", "M">>
TxtResort == <<"r", "e", "s", "o", "r", "t">>
TxtAgain == <<"a", "g", "a", "i", "n">>
TxtOk == <<"o", "k">>
TxtOkPadded == <<" ", "o", "k", " ">>
TxtBlank == <<" ">>
Txt42 == <<"4", "2">>

GraphQuestions == {TxtEmpty, TxtHi, TxtSum, TxtResort, TxtAgain}
LlmReplies == {TxtOk, TxtOkPadded, TxtBlank, TxtEmpty}
AgentOutputs == {Txt42, TxtHi}
DirectContents == {TxtEmpty, TxtHi, TxtSum}

-----------------------------------------------------------------------------
(* backend_llms.py: ConversationState and the messages channel             *)

\* The channels the compiled graph holds: the keys of ConversationState.
StateKeys == {"messages", "reformulated_query", "original_query", "context_window"}

Msg(type, content, id) == [type |-> type, content |-> content, id |-> id]

\* isinstance(m, HumanMessage)
IsHuman(m) == m.type = "human"

\* The message of a role-tagged dict: "user" is a HumanMessage, "assistant"
\* an AIMessage; it carries no id yet (id 0).
FromRole(role, content) ==
    Msg(IF role = "user" THEN "human" ELSE "ai", content, 0)

\* add_messages, the reducer of the messages channel: a message whose id is
\* already in the list replaces that entry, any other is appended, with a
\* fresh id when it has none.
RECURSIVE add_messages(_, _)
add_messages(left, right) ==
    IF right = <<>> THEN left
    ELSE LET m == Head(right)
             at == {i \in 1..Len(left) : m.id # 0 /\ left[i].id = m.id}
         IN  IF at # {}
             THEN add_messages([left EXCEPT ![CHOOSE i \in at : TRUE] = m], Tail(right))
             ELSE add_messages(
                      Append(left, IF m.id = 0 THEN [m EXCEPT !.id = Len(left) + 1] ELSE m),
                      Tail(right))

\* The part of a node's return value the graph writes.  build_graph compiles
\* StateGraph(state_schema=ConversationState): the channels are the keys of
\* ConversationState, and a key of a returned dict that is no channel is not
\* written anywhere.
Written(update) == DOMAIN update \cap StateKeys

\* The state after the graph has written a node's return value: messages goes
\* through its reducer, the other channels take the new value.
ApplyUpdate(st, update) ==
    [k \in StateKeys |->
        IF k \in Written(update)
        THEN IF k = "messages" THEN add_messages(st.messages, update.messages)
             ELSE update[k]
        ELSE st[k]]

None == "None"

\* state.get(key), on the state the graph hands to an edge selector.
StateGet(st, key) == IF key \in DOMAIN st THEN st[key] ELSE None

NoChannels ==
    [messages |-> <<>>, reformulated_query |-> TxtEmpty,
     original_query |-> TxtEmpty, context_window |-> 0]

Returned(value) == [kind |-> "return", value |-> value]
Raised(error) == [kind |-> "raise", value |-> error]

-----------------------------------------------------------------------------
(* backend_llms.py: the nodes                                              *)

data_keywords ==
    { <<"c", "s", "v">>,
      <<"d", "a", "t", "a">>,
      <<"a", "n", "a", "l", "y", "z", "e">>,
      <<"c", "h", "a", "r", "t">>,
      <<"g", "r", "a", "p", "h">>,
      <<"t", "a", "b", "l", "e">>,
      <<"s", "t", "a", "t", "i", "s", "t", "i", "c", "s">>,
      <<"n", "u", "m", "b", "e", "r", "s">>,
      <<"c", "a", "l", "c", "u", "l", "a", "t", "e">>,
      <<"s", "u", "m">>,
      <<"a", "v", "e", "r", "a", "g", "e">>,
      <<"f", "i", "l", "t", "e", "r">>,
      <<"g", "r", "o", "u", "p">>,
      <<"s", "o", "r", "t">>,
      <<"c", "o", "u", "n", "t">>,
      <<"m", "e", "a", "n">>,
      <<"m", "e", "d", "i", "a", "n">> }

context_phrases ==
    { <<"t", "h", "a", "t", " ", "d", "a", "t", "a">>,
      <<"t", "h", "o", "s", "e", " ", "r", "e", "s", "u", "l", "t", "s">>,
      <<"t", "h", "e", " ", "s", "a", "m", "e">>,
      <<"a", "l", "s", "o", " ", "s", "h", "o", "w">>,
      <<"c", "o", "m", "p", "a", "r", "e", "d", " ", "t", "o">>,
      <<"l", "i", "k", "e", " ", "b", "e", "f", "o", "r", "e">>,
      <<"s", "i", "m", "i", "l", "a", "r", " ", "a", "n", "a", "l", "y", "s", "i", "s">>,
      <<"f", "r", "o", "m", " ", "e", "a", "r", "l", "i", "e", "r">>,
      <<"p", "r", "e", "v", "i", "o", "u", "s">>,
      <<"a", "g", "a", "i", "n">> }

has_data_intent(message) == \E keyword \in data_keywords : Contains(message, keyword)
needs_context(message) == \E phrase \in context_phrases : Contains(message, phrase)

\* The decision context_aware_router takes on the lowercased text.
Decision(message) ==
    IF has_data_intent(message) \/ needs_context(message)
    THEN "query_reformulation"
    ELSE "general_chat"

\* context_aware_router(state): state["messages"][-1] raises IndexError on an
\* empty list.
context_aware_router(st) ==
    IF st.messages = <<>> THEN Raised("IndexError")
    ELSE Returned([next_node |-> Decision(Lower(Last(st.messages).content))])

Role(m) == IF IsHuman(m) THEN "user" ELSE "assistant"

Tagged(msgs) == [i \in 1..Len(msgs) |-> [role |-> Role(msgs[i]), content |-> msgs[i].content]]

\* messages[-5:]
LastFive(messages) == LastN(messages, 5)

\* get_chat_history(messages, last_k)
get_chat_history(messages, last_k) ==
    IF last_k <= 0
    THEN <<[role |-> "user", content |-> Last(messages).content]>>
    ELSE Tagged(LastFive(messages))

last_n == 5

\* state["messages"][-last_n:] if len(state["messages"]) >= last_n else all
ContextMessages(messages) == LastN(messages, last_n)

\* context_messages[:-1]
AllButLast(s) == SubSeq(s, 1, Len(s) - 1)

\* What the reformulation prompt embeds.
ReformulationPrompt(st) ==
    [n |-> Len(ContextMessages(st.messages)) - 1,
     context |-> Tagged(AllButLast(ContextMessages(st.messages))),
     question |-> Last(st.messages).content]

\* An answer of llm.invoke / csv_agent.invoke: its text, or the call raised.
Reply(text) == [ok |-> TRUE, content |-> text]
Failure == [ok |-> FALSE, content |-> TxtEmpty]

\* Mutant of query_reformulation_node: the messages are returned as new
\* messages without ids, which the reducer appends.
query_reformulation_node_copies(st, out) ==
    IF ~out.ok /\ st.messages # <<>> THEN Raised("GatewayError")
    ELSE Returned([messages |-> [i \in 1..Len(st.messages) |->
                                    [st.messages[i] EXCEPT !.id = 0]],
                   reformulated_query |-> Strip(out.content),
                   original_query |-> TxtEmpty,
                   context_window |-> Len(ContextMessages(st.messages))])

\* query_reformulation_node(state), llm.invoke ending as `out`.
query_reformulation_node(st, out) ==
    IF st.messages = <<>>
    THEN Returned([messages |-> st.messages, reformulated_query |-> TxtEmpty,
                   original_query |-> TxtEmpty, context_window |-> 0])
    ELSE IF ~out.ok THEN Raised("GatewayError")
    ELSE Returned([messages |-> st.messages,
                   reformulated_query |-> Strip(out.content),
                   original_query |-> Last(st.messages).content,
                   context_window |-> Len(ContextMessages(st.messages))])

\* Whether query_reformulation_node calls the Gateway on this state.
ReformulationCalls(st) == st.messages # <<>>

Truthy(text) == text # TxtEmpty

\* state.get(key, default)
Get(st, key, default) == IF key \in DOMAIN st THEN st[key] ELSE default

\* `reformulated_query or messages[-1].content` needs the last message only
\* when reformulated_query is empty or absent.
AgentNeedsLast(st) == ~Truthy(Get(st, "reformulated_query", TxtEmpty))

\* Mutant of query_to_use: the last message comes first, the reformulated
\* question is the fallback.
query_to_use_last(st) ==
    IF st.messages # <<>> THEN Last(st.messages).content
    ELSE Get(st, "reformulated_query", TxtEmpty)

query_to_use(st) ==
    IF Truthy(Get(st, "reformulated_query", TxtEmpty))
    THEN st.reformulated_query
    ELSE Last(st.messages).content

\* query_message["content"], the text handed to csv_agent.invoke: the query,
\* behind the context_info block when both derived questions are set.
AgentInput(st) ==
    IF Truthy(Get(st, "original_query", TxtEmpty))
       /\ Truthy(Get(st, "reformulated_query", TxtEmpty))
    THEN [prefixed |-> TRUE, original |-> st.original_query,
          reformulated |-> st.reformulated_query,
          window |-> Get(st, "context_window", 0),
          query |-> query_to_use(st)]
    ELSE [prefixed |-> FALSE, original |-> TxtEmpty, reformulated |-> TxtEmpty,
          window |-> 0, query |-> query_to_use(st)]

\* enhanced_csv_agent_node(state), csv_agent.invoke ending as `out`.
enhanced_csv_agent_node(st, out) ==
    IF AgentNeedsLast(st) /\ st.messages = <<>> THEN Raised("IndexError")
    ELSE IF ~out.ok THEN Raised("AgentError")
    ELSE Returned([messages |-> <<FromRole("assistant", out.content)>>,
                   reformulated_query |-> Get(st, "reformulated_query", TxtEmpty),
                   original_query |-> Get(st, "original_query", TxtEmpty),
                   context_window |-> Get(st, "context_window", 0)])

SystemPrompt == <<"You are a purely logical assistant.">>

\* The message list general_chat_node hands to llm.invoke.
ChatInput(st) ==
    <<[role |-> "system", content |-> SystemPrompt]>> \o get_chat_history(st.messages, 5)

\* general_chat_node(state), llm.invoke ending as `out`.
general_chat_node(st, out) ==
    IF ~out.ok THEN Raised("GatewayError")
    ELSE Returned([messages |-> <<Msg("ai", out.content, 0)>>])

-----------------------------------------------------------------------------
(* backend_llms.py: build_graph, the compiled graph, and ChatBackend.ask   *)

END == "END"
Nodes == {"router", "query_reformulation", "general_chat", "enhanced_csv_agent"}

\* The mapping of the router's conditional edge.
PathMap ==
    [general_chat |-> "general_chat", query_reformulation |-> "query_reformulation"]

\* The fixed edges.
Edge ==
    [query_reformulation |-> "enhanced_csv_agent", general_chat |-> END,
     enhanced_csv_agent |-> END]

\* lambda state: state.get("next_node")
Selector(st) == StateGet(st, "next_node")

\* Where the graph goes after node n, on the state n's return value left.
NextNode(n, st) ==
    IF n = "router"
    THEN IF Selector(st) \in DOMAIN PathMap THEN PathMap[Selector(st)] ELSE "no such edge"
    ELSE Edge[n]

\* How a graph run ends when a node's return value wrote no channel and the
\* selector found no edge: at the write, in a runtime that demands that a
\* node writes a channel, or else at the selection (the mapping has no key
\* None).
GraphErrors == {"InvalidUpdateError", "KeyError"}

Finish(r) ==
    /\ pc' = "idle"
    /\ result' = r

\* final_state["messages"][-1].content, what ask returns
Answer(st) == Last(st.messages).content

\* The compiled graph after node n returned `update`: the write, the edge,
\* and at END the return of ask.  `err` is the runtime's error for a write
\* that reaches no channel.
Advance(n, update, err) ==
    LET st == ApplyUpdate(state, update)
        nxt == NextNode(n, st)
    IN
    IF Written(update) = {} /\ err = "InvalidUpdateError"
      THEN /\ state' = state
           /\ Finish(Raised(err))
      ELSE IF nxt \in Nodes
      THEN /\ state' = st
           /\ pc' = nxt
           /\ UNCHANGED result
      ELSE IF nxt = END
      THEN /\ state' = st
           /\ Finish(Returned(Answer(st)))
      ELSE /\ state' = st
           /\ Finish(Raised("KeyError"))

\* Node n ended as r: an exception leaves the call, a node called on its own
\* hands its return value back, a node of the graph has it written.
Complete(n, r, err) ==
    /\ ran' = Append(ran, n)
    /\ mode' = mode
    /\ IF r.kind = "raise" \/ mode = "direct"
       THEN /\ Finish(r)
            /\ state' = state
       ELSE Advance(n, r.value, err)
    /\ UNCHANGED <<hvars, xvars>>

\* Mutant of initial_state: the question is followed by a placeholder for
\* the answer.
initial_state_placeholder(question) ==
    [messages |-> <<FromRole("user", question), FromRole("assistant", TxtEmpty)>>,
     reformulated_query |-> TxtEmpty, original_query |-> TxtEmpty,
     context_window |-> 0]

\* initial_state of ask
initial_state(question) ==
    [messages |-> <<FromRole("user", question)>>, reformulated_query |-> TxtEmpty,
     original_query |-> TxtEmpty, context_window |-> 0]

Running == [kind |-> "running", value |-> None]

\* ask(question) under way: the question it was called with.
Asking(question) == [kind |-> "running", value |-> question]

\* ChatBackend.ask(question): graph.invoke(initial_state)
graph_ask(question) ==
    /\ pc = "idle"
    /\ state' = ApplyUpdate(NoChannels, initial_state(question))
    /\ pc' = "router"
    /\ mode' = "graph"
    /\ ran' = <<>>
    /\ gw' = <<>>
    /\ result' = Asking(question)
    /\ UNCHANGED <<hvars, xvars>>

\* The states a node method is called with on its own.
DirectMessages ==
    UNION { { [i \in 1..n |-> Msg(f[i][1], f[i][2], i)] :
                f \in [1..n -> {"human", "ai"} \X DirectContents] } : n \in 0..MaxMsgs }

\* A conversation of more than last_n messages: three exchanges and the
\* current question.
LongConversation ==
    <<Msg("human", TxtHi, 1), Msg("ai", TxtOk, 2), Msg("human", TxtSum, 3),
      Msg("ai", Txt42, 4), Msg("human", TxtResort, 5), Msg("ai", TxtBlank, 6),
      Msg("human", TxtAgain, 7)>>

\* A state with every key of ConversationState, or with messages alone (as
\* self.state of __init__).
DirectStates ==
    [messages : DirectMessages \cup {LongConversation},
     reformulated_query : {TxtEmpty, TxtSum},
     original_query : {TxtEmpty, TxtHi}, context_window : {0, 2}]
    \cup [messages : DirectMessages \cup {LongConversation}]

\* A node method called on its own with state st.  A node reads nothing but
\* its argument, so these calls are made on a backend that has run nothing.
direct_call(n, st) ==
    /\ pc = "idle"
    /\ result.kind = "none"
    /\ state' = st
    /\ pc' = n
    /\ mode' = "direct"
    /\ ran' = <<>>
    /\ gw' = <<>>
    /\ result' = Running
    /\ UNCHANGED <<hvars, xvars>>

\* The values get_chat_history is called with for last_k.
LastKs == {0, 1, 5}

\* get_chat_history(messages, last_k) called on its own, on a backend that has
\* run nothing.
chat_history_call(messages, last_k) ==
    /\ pc = "idle"
    /\ result.kind = "none"
    /\ state' = [messages |-> messages]
    /\ pc' = "idle"
    /\ mode' = "direct"
    /\ ran' = <<"get_chat_history">>
    /\ gw' = <<>>
    /\ result' = IF last_k <= 0 /\ messages = <<>>
                 THEN Raised("IndexError")
                 ELSE Returned([last_k |-> last_k,
                                history |-> get_chat_history(messages, last_k)])
    /\ UNCHANGED <<hvars, xvars>>

Call(callee, n, input, out) == [callee |-> callee, node |-> n, input |-> input, out |-> out]

router ==
    /\ pc = "router"
    /\ gw' = gw
    /\ \E err \in GraphErrors : Complete("router", context_aware_router(state), err)

query_reformulation ==
    /\ pc = "query_reformulation"
    /\ \E out \in {Reply(t) : t \in LlmReplies} \cup {Failure} :
          /\ gw' = IF ReformulationCalls(state)
                   THEN Append(gw, Call("llm", "query_reformulation",
                                        ReformulationPrompt(state), out))
                   ELSE gw
          /\ Complete("query_reformulation", query_reformulation_node(state, out), "KeyError")

enhanced_csv_agent ==
    /\ pc = "enhanced_csv_agent"
    /\ \E out \in {Reply(t) : t \in AgentOutputs} \cup {Failure} :
          /\ gw' = IF AgentNeedsLast(state) /\ state.messages = <<>>
                   THEN gw
                   ELSE Append(gw, Call("csv_agent", "enhanced_csv_agent",
                                        AgentInput(state), out))
          /\ Complete("enhanced_csv_agent", enhanced_csv_agent_node(state, out), "KeyError")

general_chat ==
    /\ pc = "general_chat"
    /\ \E out \in {Reply(t) : t \in LlmReplies} \cup {Failure} :
          /\ gw' = Append(gw, Call("llm", "general_chat", ChatInput(state), out))
          /\ Complete("general_chat", general_chat_node(state, out), "KeyError")

-----------------------------------------------------------------------------
(* super_csv_agent.py: the Executor, _execute_code of SimpleCSVAgent and   *)
(* of CSVCodeReactAgent.  A code string is the sequence of its lines, a     *)
(* line the sequence of its characters.                                     *)

Agents == {"SimpleCSVAgent", "CSVCodeReactAgent"}

\* self.df as pd.read_csv loaded it: the number of rows and the columns.
Loaded == [rows |-> 2, columns |-> {"a", "b"}]

\* The pandas module, one object for the whole process: its display options
\* as imported.
pandas == [max_rows |-> 60]

\* str(n) of a number below 10
StrOf(n) == <<<<"0">>, <<"1">>, <<"2">>, <<"3">>, <<"4">>, <<"5">>, <<"6">>, <<"7">>, <<"8">>, <<"9">>>>[n + 1]

\* str(df.shape)
ShapeText(d) ==
    <<"(">> \o StrOf(d.rows) \o <<",", " ">> \o StrOf(Cardinality(d.columns)) \o <<")">>

\* str(df): the label of every row, or, for a frame of more rows than
\* display.max_rows, the truncated view that ends with the dimensions.
FrameText(d, opts) ==
    IF d.rows > opts.max_rows
    THEN <<".", ".">> \o ShapeText(d)
    ELSE [i \in 1..d.rows |-> StrOf(i - 1)[1]]

TxtNone == <<"N", "o", "n", "e">>

\* The lines generated code is made of.
LinePrintShape == <<"p", "r", "i", "n", "t", "(", "d", "f", ".", "s", "h", "a", "p", "e", ")">>
LineShape == <<"d", "f", ".", "s", "h", "a", "p", "e">>
LineAddColumn == <<"d", "f", "[", "'", "c", "'", "]", " ", "=", " ", "0">>
LineDropRow == <<"d", "f", ".", "d", "r", "o", "p", "(", "d", "f", ".", "i", "n", "d", "e", "x", "[", "0", "]", ",", " ", "i", "n", "p", "l", "a", "c", "e", "=", "T", "r", "u", "e", ")">>
LineSetOption == <<"p", "d", ".", "s", "e", "t", "_", "o", "p", "t", "i", "o", "n", "(", "'", "d", "i", "s", "p", "l", "a", "y", ".", "m", "a", "x", "_", "r", "o", "w", "s", "'", ",", " ", "1", ")">>
LineFrame == <<"d", "f">>
LineRaise == <<"r", "a", "i", "s", "e", " ", "V", "a", "l", "u", "e", "E", "r", "r", "o", "r", "(", "'", "b", "o", "o", "m", "'", ")">>
LineExit == <<"r", "a", "i", "s", "e", " ", "S", "y", "s", "t", "e", "m", "E", "x", "i", "t">>
LineWarn == <<"i", "m", "p", "o", "r", "t", " ", "s", "y", "s", ";", " ", "s", "y", "s", ".", "s", "t", "d", "e", "r", "r", ".", "w", "r", "i", "t", "e", "(", "'", "w", "'", ")">>
LinePop == <<"d", "f", ".", "p", "o", "p", "(", "'", "b", "'", ")">>
LinePopLast == <<"d", "f", ".", "p", "o", "p", "(", "d", "f", ".", "c", "o", "l", "u", "m", "n", "s", "[", "-", "1", "]", ")", ".", "n", "a", "m", "e">>
LineToCsv == <<"d", "f", ".", "t", "o", "_", "c", "s", "v", "(", "'", "o", "u", "t", ".", "c", "s", "v", "'", ")">>
LineBlank == <<>>
LineProse == <<"T", "h", "e", " ", "a", "n", "s", "w", "e", "r", " ", "i", "s", " ", "2">>

\* The lines that compile, and those of them that are expressions.
Statements ==
    {LinePrintShape, LineShape, LineAddColumn, LineDropRow, LineSetOption,
     LineFrame, LineRaise, LineExit, LineWarn, LinePop, LinePopLast, LineToCsv,
     LineBlank}
Expressions ==
    {LinePrintShape, LineShape, LineDropRow, LineSetOption, LineFrame, LinePop,
     LinePopLast, LineToCsv}

\* The columns a frame can have, in their order.
ColumnOrder == <<"a", "b", "c">>

\* df.columns[-1]
LastColumn(d) ==
    ColumnOrder[CHOOSE i \in 1..Len(ColumnOrder) :
                   /\ ColumnOrder[i] \in d.columns
                   /\ \A j \in 1..Len(ColumnOrder) : ColumnOrder[j] \in d.columns => j <= i]

\* str(e) of the exceptions the lines raise.
MsgBoom == <<"b", "o", "o", "m">>
MsgKey == <<"'", "b", "'">>
MsgIndex == <<"i", "n", "d", "e", "x", " ", "0", " ", "i", "s", " ", "o", "u", "t", " ", "o", "f", " ", "b", "o", "u", "n", "d", "s", " ", "f", "o", "r", " ", "a", "x", "i", "s", " ", "0", " ", "w", "i", "t", "h", " ", "s", "i", "z", "e", " ", "0">>
MsgSyntax == <<"i", "n", "v", "a", "l", "i", "d", " ", "s", "y", "n", "t", "a", "x">>

\* Mutant of local_namespace: df is bound to self.df itself.
local_namespace_shared(selfdf, opts) ==
    [self |-> selfdf, copy |-> selfdf, df |-> "self", pd |-> opts,
     out |-> <<>>, err |-> <<>>, exc |-> "none", msg |-> <<>>, value |-> <<>>]

\* local_namespace with what exec works on: the frame objects (self.df and
\* its copy), the object the name df is bound to, the pandas module, the two
\* capture buffers, and the exception and value of the line last run.
local_namespace(selfdf, opts) ==
    [self |-> selfdf, copy |-> selfdf, df |-> "copy", pd |-> opts,
     out |-> <<>>, err |-> <<>>, exc |-> "none", msg |-> <<>>, value |-> <<>>]

\* The frame the name df is bound to, and an in-place change of it.
Bound(c) == IF c.df = "self" THEN c.self ELSE c.copy
Mutate(c, d) == IF c.df = "self" THEN [c EXCEPT !.self = d] ELSE [c EXCEPT !.copy = d]

\* An exception of the given base class leaves the line.
Throw(c, base, msg) == [c EXCEPT !.exc = base, !.msg = msg]

\* One line run by the interpreter: its effect on the namespace, the
\* objects and the buffers, and str() of its value when it is an expression.
Run(c, line) ==
    LET d == Bound(c)
    IN  CASE line = LinePrintShape ->
               [c EXCEPT !.out = @ \o ShapeText(d) \o <<"\n">>, !.value = TxtNone]
          [] line = LineShape -> [c EXCEPT !.value = ShapeText(d)]
          [] line = LineAddColumn ->
               Mutate(c, [d EXCEPT !.columns = @ \cup {"c"}])
          [] line = LineDropRow ->
               IF d.rows = 0 THEN Throw(c, "Exception", MsgIndex)
               ELSE [Mutate(c, [d EXCEPT !.rows = @ - 1]) EXCEPT !.value = TxtNone]
          [] line = LineSetOption ->
               [c EXCEPT !.pd = [max_rows |-> 1], !.value = TxtNone]
          [] line = LineFrame -> [c EXCEPT !.value = FrameText(d, c.pd)]
          [] line = LineRaise -> Throw(c, "Exception", MsgBoom)
          [] line = LineExit -> Throw(c, "BaseException", <<>>)
          [] line = LineWarn -> [c EXCEPT !.err = @ \o <<"w">>]
          [] line = LinePop ->
               IF "b" \in d.columns
               THEN [Mutate(c, [d EXCEPT !.columns = @ \ {"b"}]) EXCEPT
                        !.value = FrameText(d, c.pd)]
               ELSE Throw(c, "Exception", MsgKey)
          [] line = LinePopLast ->
               IF d.columns = {} THEN Throw(c, "Exception", MsgIndex)
               ELSE [Mutate(c, [d EXCEPT !.columns = @ \ {LastColumn(d)}]) EXCEPT
                        !.value = <<LastColumn(d)>>]
          [] line = LineToCsv -> [c EXCEPT !.value = TxtNone]
          [] OTHER -> c

RECURSIVE RunLines(_, _)
RunLines(c, lines) ==
    IF lines = <<>> \/ c.exc # "none" THEN c
    ELSE RunLines(Run(c, Head(lines)), Tail(lines))

\* exec(code, ...): the code is compiled, then run line by line up to the
\* first exception.
exec(c, code) ==
    IF \E i \in 1..Len(code) : code[i] \notin Statements
    THEN Throw(c, "Exception", MsgSyntax)
    ELSE RunLines(c, code)

\* Mutant of eval: the line is evaluated on a new copy of self.df.
eval_on_new_copy(c, line) ==
    IF line \in Expressions
    THEN Run([c EXCEPT !.copy = c.self, !.df = "copy"], line)
    ELSE Throw(c, "Exception", MsgSyntax)

\* eval(last_line, ...): a line that is no expression is a SyntaxError.
eval(c, line) ==
    IF line \in Expressions THEN Run(c, line) ELSE Throw(c, "Exception", MsgSyntax)

\* str.startswith
StartsWith(t, p) == Len(t) >= Len(p) /\ SubSeq(t, 1, Len(p)) = p

\* code.strip().split('\n')[-1].strip()
LastLine(code) ==
    LET filled == {i \in 1..Len(code) : Strip(code[i]) # <<>>}
    IN  IF filled = {} THEN <<>>
        ELSE Strip(code[CHOOSE i \in filled : \A j \in filled : j <= i])

\* last_line.startswith(cmd) for one of 'print', 'df.to_', 'plt.'
IsCommand(line) ==
    \E cmd \in {<<"p", "r", "i", "n", "t">>, <<"d", "f", ".", "t", "o", "_">>, <<"p", "l", "t", ".">>} : StartsWith(line, cmd)

NoOutput == <<"C", "o", "d", "e", " ", "e", "x", "e", "c", "u", "t", "e", "d", " ", "s", "u", "c", "c", "e", "s", "s", "f", "u", "l", "l", "y", " ", "(", "n", "o", " ", "o", "u", "t", "p", "u", "t", ")">>

\* How a call of _execute_code ends: the string it returns or the exception
\* that leaves it, with self.df and the pandas module as the call leaves
\* them, the frame the code found under df, how exec ended (its exception,
\* the two captured buffers, the frame under df), whether the final line was
\* evaluated and how that ended, and the frame under df at the end.
Outcome(c, kind, text, selfdf, first, evaluated) ==
    [kind |-> kind, text |-> text, self |-> c.self, pd |-> c.pd,
     entry |-> selfdf, exec |-> first.exc, out |-> first.out, err |-> first.err,
     after |-> Bound(first), evaluated |-> evaluated,
     eval |-> IF evaluated THEN c.exc ELSE "none",
     value |-> IF evaluated THEN c.value ELSE <<>>,
     final |-> Bound(c)]

\* Mutant of ExecutionError: the message of the exception alone.
ExecutionErrorBare(msg) == msg

\* f"Execution error: {str(e)}"
ExecutionError(msg) == <<"E", "x", "e", "c", "u", "t", "i", "o", "n", " ", "e", "r", "r", "o", "r", ":", " ">> \o msg

\* f"Error executing code: {str(e)}"
ErrorExecutingCode(msg) == <<"E", "r", "r", "o", "r", " ", "e", "x", "e", "c", "u", "t", "i", "n", "g", " ", "c", "o", "d", "e", ":", " ">> \o msg

\* Mutant of SimpleCSVAgent_execute_code: captured stdout is looked at before
\* captured stderr.
SimpleCSVAgent_execute_code_stdout_first(selfdf, opts, code) ==
    LET ns == local_namespace(selfdf, opts)
        c == exec(ns, code)
        last_line == LastLine(code)
        e == eval(c, last_line)
        entry == Bound(ns)
    IN  IF c.exc = "BaseException" THEN Outcome(c, "raise", <<>>, entry, c, FALSE)
        ELSE IF c.exc = "Exception"
        THEN Outcome(c, "return", ExecutionError(c.msg), entry, c, FALSE)
        ELSE IF c.out # <<>> THEN Outcome(c, "return", Strip(c.out), entry, c, FALSE)
        ELSE IF c.err # <<>>
        THEN Outcome(c, "return", <<"E", "r", "r", "o", "r", ":", " ">> \o c.err, entry, c, FALSE)
        ELSE IF IsCommand(last_line) THEN Outcome(c, "return", NoOutput, entry, c, FALSE)
        ELSE IF e.exc = "none" THEN Outcome(e, "return", e.value, entry, c, TRUE)
        ELSE IF e.exc = "Exception" THEN Outcome(e, "return", NoOutput, entry, c, TRUE)
        ELSE Outcome(e, "raise", <<>>, entry, c, TRUE)

\* SimpleCSVAgent._execute_code(code)
SimpleCSVAgent_execute_code(selfdf, opts, code) ==
    LET ns == local_namespace(selfdf, opts)
        c == exec(ns, code)
        last_line == LastLine(code)
        e == eval(c, last_line)
        entry == Bound(ns)
    IN  IF c.exc = "BaseException" THEN Outcome(c, "raise", <<>>, entry, c, FALSE)
        ELSE IF c.exc = "Exception"
        THEN Outcome(c, "return", ExecutionError(c.msg), entry, c, FALSE)
        ELSE IF c.err # <<>>
        THEN Outcome(c, "return", <<"E", "r", "r", "o", "r", ":", " ">> \o c.err, entry, c, FALSE)
        ELSE IF c.out # <<>> THEN Outcome(c, "return", Strip(c.out), entry, c, FALSE)
        ELSE IF IsCommand(last_line) THEN Outcome(c, "return", NoOutput, entry, c, FALSE)
        ELSE IF e.exc = "none" THEN Outcome(e, "return", e.value, entry, c, TRUE)
        ELSE IF e.exc = "Exception" THEN Outcome(e, "return", NoOutput, entry, c, TRUE)
        ELSE Outcome(e, "raise", <<>>, entry, c, TRUE)

\* CSVCodeReactAgent._execute_code(code)
CSVCodeReactAgent_execute_code(selfdf, opts, code) ==
    LET ns == local_namespace(selfdf, opts)
        c == exec(ns, code)
        last_line == LastLine(code)
        e == eval(c, last_line)
        entry == Bound(ns)
    IN  IF c.exc = "BaseException" THEN Outcome(c, "raise", <<>>, entry, c, FALSE)
        ELSE IF c.exc = "Exception"
        THEN Outcome(c, "return", ErrorExecutingCode(c.msg), entry, c, FALSE)
        ELSE IF c.err # <<>>
        THEN Outcome(c, "return", <<"E", "r", "r", "o", "r", " ", "e", "x", "e", "c", "u", "t", "i", "n", "g", " ", "c", "o", "d", "e", ":", "\n">> \o c.err, entry, c, FALSE)
        ELSE IF c.out # <<>>
        THEN Outcome(c, "return", <<"C", "o", "d", "e", " ", "e", "x", "e", "c", "u", "t", "e", "d", " ", "s", "u", "c", "c", "e", "s", "s", "f", "u", "l", "l", "y", ":", "\n">> \o c.out, entry, c, FALSE)
        ELSE IF IsCommand(last_line) THEN Outcome(c, "return", NoOutput, entry, c, FALSE)
        ELSE IF e.exc = "none"
        THEN Outcome(e, "return", <<"R", "e", "s", "u", "l", "t", ":", " ">> \o e.value, entry, c, TRUE)
        ELSE Outcome(e, "return", NoOutput, entry, c, TRUE)

\* The code strings handed to the Executor.
Codes ==
    {<<LinePrintShape>>, <<LineShape, LineBlank>>,
     <<LineAddColumn, LineDropRow, LineShape>>, <<LineSetOption>>,
     <<LineFrame>>, <<LineRaise>>, <<LineExit>>, <<LinePrintShape, LineWarn>>,
     <<LinePop>>, <<LineProse>>, <<LineToCsv>>, <<LinePopLast>>}

\* agent._execute_code(code), on the one object of each agent class.
execute_code(agent, code) ==
    /\ Len(xlog) < MaxCalls
    /\ LET r == IF agent = "SimpleCSVAgent"
                THEN SimpleCSVAgent_execute_code(df[agent], pd, code)
                ELSE CSVCodeReactAgent_execute_code(df[agent], pd, code)
       IN  /\ df' = [df EXCEPT ![agent] = r.self]
           /\ pd' = r.pd
           /\ xlog' = Append(xlog, [agent |-> agent, code |-> code,
                                    kind |-> r.kind, text |-> r.text,
                                    entry |-> r.entry, exec |-> r.exec,
                                    out |-> r.out, err |-> r.err,
                                    after |-> r.after, evaluated |-> r.evaluated,
                                    eval |-> r.eval, value |-> r.value,
                                    final |-> r.final, module |-> pd])
    /\ UNCHANGED <<hvars, gvars, tlog>>

-----------------------------------------------------------------------------
(* super_csv_agent.py: the Translator's clean-up of the model output, the  *)
(* same in _translate_to_code and in generate_and_execute_code.            *)

\* The grave accent, the character of a code fence.
Tick == "grave"

Fence == <<Tick, Tick, Tick>>
PythonFence == <<Tick, Tick, Tick, "p", "y", "t", "h", "o", "n">>

\* The position of the first occurrence of sep in t, 0 when there is none.
Find(t, sep) ==
    LET at == {i \in 1..(Len(t) - Len(sep) + 1) : SubSeq(t, i, i + Len(sep) - 1) = sep}
    IN  IF at = {} THEN 0 ELSE CHOOSE i \in at : \A j \in at : i <= j

\* t.split(sep)[0]
SplitFirst(t, sep) ==
    IF Find(t, sep) = 0 THEN t ELSE SubSeq(t, 1, Find(t, sep) - 1)

\* sep.join(t.split(sep)[1:]), for a t that holds sep
AfterFirst(t, sep) == SubSeq(t, Find(t, sep) + Len(sep), Len(t))

\* t.split(sep)[1], for a t that holds sep
SplitSecond(t, sep) == SplitFirst(AfterFirst(t, sep), sep)

\* generated_code as _translate_to_code returns it, for the model output
\* response.content.
generated_code(content) ==
    LET stripped == Strip(content)
        inside == LStrip(SplitSecond(stripped, PythonFence))
    IN  IF Contains(stripped, PythonFence)
        THEN IF Contains(inside, Fence) THEN Strip(SplitFirst(inside, Fence))
             ELSE inside
        ELSE stripped

\* The model outputs: an optional preamble, an optional opening fence, the
\* code, and an optional closing fence with or without prose behind it.
Preambles == {<<>>, <<"H", "e", "r", "e", " ", "i", "s", " ", "t", "h", "e", " ", "c", "o", "d", "e", ":", "\n">>}
Openers == {<<>>, <<Tick, Tick, Tick, "p", "y", "t", "h", "o", "n", "\n">>, <<Tick, Tick, Tick, "\n">>}
Bodies == {LineShape, LinePrintShape}
Closers == {<<>>, <<"\n", Tick, Tick, Tick>>, <<"\n", Tick, Tick, Tick, "\n", "T", "h", "i", "s", " ", "p", "r", "i", "n", "t", "s", " ", "t", "h", "e", " ", "s", "h", "a", "p", "e", ".">>}
ModelOutputs ==
    {pre \o open \o body \o close :
        pre \in Preambles, open \in Openers, body \in Bodies, close \in Closers}

\* _translate_to_code(query), the model answering with `content`.
translate_to_code(content) ==
    /\ Len(tlog) < MaxTranslations
    /\ tlog' = Append(tlog, [content |-> content, code |-> generated_code(content)])
    /\ UNCHANGED <<hvars, gvars, df, pd, xlog>>

-----------------------------------------------------------------------------

Init ==
    /\ chat_sessions = <<>>
    /\ history = <<>>
    /\ owner = <<>>
    /\ asked = <<>>
    /\ resp = Response("start", NoSession, 0, "", NoPrompt, <<>>)
    /\ state = NoChannels
    /\ pc = "idle"
    /\ mode = "graph"
    /\ ran = <<>>
    /\ gw = <<>>
    /\ result = [kind |-> "none", value |-> None]
    /\ df = [agent \in Agents |-> Loaded]
    /\ pd = pandas
    /\ xlog = <<>>
    /\ tlog = <<>>

Next ==
    \/ \E sid \in SessionIds, q \in Questions, out \in PostAnswers \cup {Raise} :
          send_message(sid, q, out)
    \/ \E sid \in SessionIds : get_messages(sid)
    \/ \E sid \in SessionIds : clear_session(sid)
    \/ get_sessions

Spec == Init /\ [][Next]_vars

HistoryNext ==
    \E q \in Questions, out \in Answers \cup {Raise} : ask(q, out)

HistorySpec == Init /\ [][HistoryNext]_vars

GraphNext ==
    \/ \E q \in GraphQuestions : graph_ask(q)
    \/ \E n \in Nodes, st \in DirectStates : direct_call(n, st)
    \/ \E messages \in DirectMessages \cup {LongConversation}, last_k \in LastKs :
          chat_history_call(messages, last_k)
    \/ router
    \/ query_reformulation
    \/ enhanced_csv_agent
    \/ general_chat

GraphSpec == Init /\ [][GraphNext]_vars

ExecNext ==
    \E agent \in Agents, code \in Codes : execute_code(agent, code)

ExecSpec == Init /\ [][ExecNext]_vars

TranslateNext ==
    \E content \in ModelOutputs : translate_to_code(content)

TranslateSpec == Init /\ [][TranslateNext]_vars

-----------------------------------------------------------------------------
(* Claims                                                                  *)

\* C1 (HistorySpec): after any sequence of ChatBackend.ask calls the History
\* Buffer holds at most 5 pairs and equals the most recent min(n, 5) pairs
\* appended, in insertion order (so every eviction removed the oldest pair).
C1_HistoryIsLastFive ==
    /\ Len(history) <= 5
    /\ Len(history) = (IF Len(asked) < 5 THEN Len(asked) ELSE 5)
    /\ \A i \in 1..Len(history) : history[i] = asked[Len(asked) - Len(history) + i]

\* C1 witness: more than 5 pairs were appended and the first one is gone.
C1_Witness ==
    /\ Len(asked) >= 7
    /\ Len(history) = 5
    /\ history[1] # asked[1]
    /\ history[5] = asked[Len(asked)]

\* C2 (Spec): the History Buffer that builds the prompt of a message posted to
\* a session holds only pairs produced in that session.
C2_PromptFromOwnSession ==
    resp.op = "send_message" =>
        \A i \in 1..Len(resp.ctxOwner) : resp.ctxOwner[i] = resp.sid

\* C3 (Spec): clear_session on an id that is not in the registry answers 404
\* and changes nothing; on an existing id it removes that id; and a
\* send_message to an id that is not in the registry (never created, or
\* cleared) leaves it with the welcome record followed by the records of this
\* post alone.
C3_ClearThenFresh ==
    [][ /\ (resp'.op = "clear_session" /\ resp'.sid \notin DOMAIN chat_sessions) =>
              /\ resp'.status = 404
              /\ chat_sessions' = chat_sessions
              /\ history' = history
        /\ (resp'.op = "clear_session" /\ resp'.sid \in DOMAIN chat_sessions) =>
              /\ resp'.status = 200
              /\ resp'.sid \notin DOMAIN chat_sessions'
              /\ \A x \in DOMAIN chat_sessions \ {resp'.sid} :
                    x \in DOMAIN chat_sessions' /\ chat_sessions'[x] = chat_sessions[x]
        /\ (resp'.op = "send_message" /\ resp'.sid \notin DOMAIN chat_sessions) =>
              /\ resp'.sid \in DOMAIN chat_sessions'
              /\ chat_sessions'[resp'.sid][1] = Welcome
              /\ chat_sessions'[resp'.sid][2] = Record("user", resp'.prompt.question)
              /\ IF resp'.status = 200
                 THEN chat_sessions'[resp'.sid] =
                         <<Welcome, Record("user", resp'.prompt.question), resp'.body>>
                 ELSE Len(chat_sessions'[resp'.sid]) = 2
      ]_vars

\* C3 witness: a session that had answered two posts holds, after a clear and
\* a new post, the welcome record and that one exchange.
C3_Witness ==
    /\ resp.op = "send_message"
    /\ resp.status = 200
    /\ Len(owner) = 2
    /\ owner[1] = resp.sid
    /\ owner[2] = resp.sid
    /\ Len(chat_sessions[resp.sid]) = 3

\* C4 (Spec): send_message never answers with a 5xx status; when the model
\* call fails it still returns a bot record.
C4_NoServerError ==
    resp.op = "send_message" =>
        /\ resp.status < 500
        /\ resp.body.type = "bot"

\* A call of GraphSpec has ended.
Ended == pc = "idle" /\ result.kind \in {"return", "raise"}

\* The question of a call made through ask.
AskedQuestion == state.messages[1].content

NoIntent(text) == ~has_data_intent(Lower(text)) /\ ~needs_context(Lower(text))

GatewayAllOk == \A i \in 1..Len(gw) : gw[i].out.ok

\* C5 (GraphSpec): a message with no data-intent keyword and no
\* context-dependency phrase is handled by general_chat alone, and the answer
\* is the reply of the general-chat model call.
C5_GeneralChatOnly ==
    (Ended /\ mode = "graph" /\ NoIntent(AskedQuestion)) =>
        /\ ran = <<"router", "general_chat">>
        /\ GatewayAllOk => (result.kind = "return" /\ result.value = Last(gw).out.content)

\* C6 (GraphSpec): a message with a data-intent signal is answered by the data
\* pipeline, and the request ends with a textual answer and no exception
\* whatever the Gateway or the data agent returns or raises.
C6_DataPipelineAlwaysAnswers ==
    /\ (Ended /\ mode = "graph" /\ ~NoIntent(AskedQuestion)) =>
          /\ ran = <<"router", "query_reformulation", "enhanced_csv_agent">>
          /\ result.kind = "return"
    /\ (Ended /\ mode = "direct" /\ ran = <<"enhanced_csv_agent">>
          /\ state.messages # <<>>) =>
          result.kind = "return"

\* C7 (GraphSpec): on an empty text or an empty message sequence
\* context_aware_router returns the general_chat decision without raising.
C7_RouterNeverCrashes ==
    (/\ Ended
     /\ mode = "direct"
     /\ ran = <<"router">>
     /\ (state.messages = <<>> \/ Last(state.messages).content = TxtEmpty)) =>
        /\ result.kind = "return"
        /\ result.value.next_node = "general_chat"

\* C8 (GraphSpec): every graph invocation is one acyclic pass that reaches
\* END: router, then general_chat alone or query_reformulation followed by
\* enhanced_csv_agent.
C8_SinglePassToEnd ==
    (Ended /\ mode = "graph" /\ GatewayAllOk) =>
        /\ result.kind = "return"
        /\ ran \in { <<"router", "general_chat">>,
                     <<"router", "query_reformulation", "enhanced_csv_agent">> }

\* C9 (GraphSpec): an invocation ends at END with the assistant answer of the
\* handling node as the last message of the final state, and ask returns
\* that message's content.
C9_AnswerIsLastMessage ==
    (Ended /\ mode = "graph" /\ GatewayAllOk) =>
        /\ result.kind = "return"
        /\ Last(state.messages).type = "ai"
        /\ Last(state.messages).content = Last(gw).out.content
        /\ result.value = Last(state.messages).content

\* C10 (GraphSpec): when llm.invoke raises in query_reformulation_node the
\* node does not fail: it hands on the unmodified current question (or an
\* empty reformulation, which the data agent replaces by that question).
C10_ReformulationFailureRecovered ==
    (/\ Ended
     /\ ran = <<"query_reformulation">>
     /\ gw # <<>>
     /\ ~Last(gw).out.ok) =>
        /\ result.kind = "return"
        /\ result.value.reformulated_query \in {TxtEmpty, Last(state.messages).content}

\* C11 (GraphSpec): the query handed to the data agent is the reformulated
\* question when that is non-empty, and the content of the last message (the
\* current question) when it is empty or absent from the state.
C11_EffectiveQuery ==
    (/\ Ended
     /\ ran = <<"enhanced_csv_agent">>
     /\ gw # <<>>) =>
        /\ Len(gw) = 1
        /\ gw[1].callee = "csv_agent"
        /\ IF "reformulated_query" \in DOMAIN state /\ state.reformulated_query # TxtEmpty
           THEN gw[1].input.query = state.reformulated_query
           ELSE gw[1].input.query = state.messages[Len(state.messages)].content

\* C11 witness: the agent was called with a reformulated question that is not
\* the last message.
C11_Witness ==
    /\ Ended
    /\ ran = <<"enhanced_csv_agent">>
    /\ gw # <<>>
    /\ "reformulated_query" \in DOMAIN state
    /\ state.reformulated_query = TxtSum
    /\ state.messages # <<>>
    /\ Last(state.messages).content = TxtHi
    /\ gw[1].input.query = TxtSum

\* C12 (GraphSpec): query reformulation leaves the message sequence alone:
\* the messages it returns are the messages it was given, writing its return
\* value through the add_messages reducer leaves the messages channel as it
\* was, and the other keys it returns are reformulated_query, original_query
\* and context_window.
C12_ReformulationKeepsMessages ==
    (/\ Ended
     /\ ran = <<"query_reformulation">>
     /\ result.kind = "return") =>
        /\ result.value.messages = state.messages
        /\ ApplyUpdate(state, result.value).messages = state.messages
        /\ DOMAIN result.value =
              {"messages", "reformulated_query", "original_query", "context_window"}

\* C12 witness: reformulation of a two-message conversation returned a
\* rewritten question.
C12_Witness ==
    /\ Ended
    /\ ran = <<"query_reformulation">>
    /\ result.kind = "return"
    /\ Len(state.messages) = MaxMsgs
    /\ result.value.reformulated_query = TxtOk
    /\ gw # <<>>

\* C13 (GraphSpec): query reformulation on a conversation whose only message
\* is the current question, the Gateway answering, returns context_window 0
\* and a reformulated_query that is the original question or empty, and does
\* not raise.
C13_EmptyHistoryReformulation ==
    (/\ Ended
     /\ ran = <<"query_reformulation">>
     /\ Len(state.messages) = 1
     /\ gw # <<>>
     /\ gw[1].out.ok) =>
        /\ result.kind = "return"
        /\ result.value.context_window = 0
        /\ result.value.reformulated_query \in {state.messages[1].content, TxtEmpty}

\* The pairs appended before the latest call of ask: that call appended one
\* more unless it raised.
AppendedBefore ==
    IF resp.body = Raise THEN asked ELSE SubSeq(asked, 1, Len(asked) - 1)

\* C18 as stated (HistorySpec): the history block rendered after N >= 1 pairs
\* were appended has exactly N lines (5 when N > 5).
C18_RenderHasNLines ==
    (resp.op = "ask" /\ Len(AppendedBefore) >= 1) =>
        Len(resp.prompt.context) =
            (IF Len(AppendedBefore) <= 5 THEN Len(AppendedBefore) ELSE 5)

\* C18 amended (HistorySpec): the history block rendered after N pairs were
\* appended holds the most recent min(N, 5) pairs in insertion order, each as
\* the line "User: q" followed by the line "AI: a" (two lines for each pair),
\* and is the single line "The conversation has just begun." when N = 0.
C18_RenderHasTwoLinesPerPair ==
    resp.op = "ask" =>
        LET n == Len(AppendedBefore)
            k == IF n <= 5 THEN n ELSE 5
            lines == resp.prompt.context
        IN  IF n = 0
            THEN lines = <<<<"The conversation has just begun.", "">>>>
            ELSE /\ Len(lines) = 2 * k
                 /\ \A i \in 1..k :
                       /\ lines[2 * i - 1] = <<"User", AppendedBefore[n - k + i][1]>>
                       /\ lines[2 * i] = <<"AI", AppendedBefore[n - k + i][2]>>

\* C18 witness: a prompt was rendered after more than 5 pairs were appended,
\* and its first line is not the first question asked.
C18_Witness ==
    /\ resp.op = "ask"
    /\ Len(AppendedBefore) = 6
    /\ Len(resp.prompt.context) = 10
    /\ resp.prompt.context[1] # <<"User", asked[1][1]>>
    /\ resp.prompt.context[1] = <<"User", asked[2][1]>>

\* The records of a session start with the welcome record and hold no other.
OneWelcome(records) ==
    /\ records # <<>>
    /\ records[1] = Welcome
    /\ \A i \in 2..Len(records) : records[i] # Welcome

\* C19 (Spec): a session is in the registry from its first access
\* (get_messages or send_message) until clear_session: an access adds the id
\* and nothing else, creating an absent session with exactly one welcome
\* record in front and keeping the records of a present one (a post only
\* appends), clear_session removes the id, no request touches another
\* session, and get_sessions reports exactly the ids in the registry.
C19_SessionLifecycle ==
    [][LET sid == resp'.sid
           op == resp'.op
       IN  /\ op \in {"get_messages", "send_message"} =>
                /\ DOMAIN chat_sessions' = DOMAIN chat_sessions \cup {sid}
                /\ OneWelcome(chat_sessions'[sid])
                /\ (sid \notin DOMAIN chat_sessions /\ op = "get_messages") =>
                      /\ chat_sessions'[sid] = <<Welcome>>
                      /\ resp'.body = <<Welcome>>
                /\ sid \in DOMAIN chat_sessions =>
                      /\ Len(chat_sessions'[sid]) >= Len(chat_sessions[sid])
                      /\ SubSeq(chat_sessions'[sid], 1, Len(chat_sessions[sid]))
                            = chat_sessions[sid]
                      /\ op = "get_messages" => chat_sessions'[sid] = chat_sessions[sid]
           /\ op = "clear_session" =>
                DOMAIN chat_sessions' = DOMAIN chat_sessions \ {sid}
           /\ op = "get_sessions" =>
                /\ chat_sessions' = chat_sessions
                /\ resp'.body.sessions = DOMAIN chat_sessions
                /\ resp'.body.active_sessions = Cardinality(DOMAIN chat_sessions)
           /\ \A x \in DOMAIN chat_sessions' \ {sid} :
                x \in DOMAIN chat_sessions /\ chat_sessions'[x] = chat_sessions[x]
      ]_vars

\* C19 witness: get_sessions reports s2 alone, a session that was read after
\* a message was posted to it.
C19_Witness ==
    /\ resp.op = "get_sessions"
    /\ resp.body.sessions = {"s2"}
    /\ Len(chat_sessions["s2"]) >= 3
    /\ OneWelcome(chat_sessions["s2"])

\* C20 (GraphSpec): while a graph invocation made by ask is under way, from
\* its first step on, the last message of the graph state is the user turn
\* ask was called with, whatever calls came before.
C20_LastMessageIsNewestUserTurn ==
    (mode = "graph" /\ result.kind = "running") =>
        /\ state.messages # <<>>
        /\ IsHuman(Last(state.messages))
        /\ Last(state.messages).content = result.value

\* C20 witness: the graph was invoked with the question "SUM" and has not
\* run a node yet.
C20_Witness ==
    /\ mode = "graph"
    /\ result.kind = "running"
    /\ pc = "router"
    /\ ran = <<>>
    /\ result.value = TxtSum
    /\ Last(state.messages).content = TxtSum

\* C14 (ExecSpec): _execute_code never lets an exception out: every call, of
\* either class and for every code string, returns a string.
C14_ExecutorAlwaysReturns ==
    \A i \in 1..Len(xlog) : xlog[i].kind = "return"

\* C15 as stated (ExecSpec): when the generated code raises a runtime error,
\* _execute_code of either class returns a string that starts with
\* "Execution error:" or with "Error:".
C15_ErrorPrefixEverywhere ==
    \A i \in 1..Len(xlog) :
        xlog[i].exec = "Exception" =>
            /\ xlog[i].kind = "return"
            /\ \/ StartsWith(xlog[i].text, <<"E", "x", "e", "c", "u", "t", "i", "o", "n", " ", "e", "r", "r", "o", "r", ":">>)
               \/ StartsWith(xlog[i].text, <<"E", "r", "r", "o", "r", ":">>)

\* C15 amended (ExecSpec): when exec of the generated code raises a runtime
\* error (an exception derived from Exception, a syntax error included),
\* SimpleCSVAgent._execute_code returns "Execution error: " followed by the
\* message of the exception, and CSVCodeReactAgent._execute_code returns
\* "Error executing code: " followed by it.
C15_ErrorPrefixPerClass ==
    \A i \in 1..Len(xlog) :
        xlog[i].exec = "Exception" =>
            /\ xlog[i].kind = "return"
            /\ \E msg \in {MsgBoom, MsgSyntax, MsgKey, MsgIndex} :
                  xlog[i].text =
                      (IF xlog[i].agent = "SimpleCSVAgent"
                       THEN <<"E", "x", "e", "c", "u", "t", "i", "o", "n", " ", "e", "r", "r", "o", "r", ":", " ">>
                       ELSE <<"E", "r", "r", "o", "r", " ", "e", "x", "e", "c", "u", "t", "i", "n", "g", " ", "c", "o", "d", "e", ":", " ">>) \o msg

\* C15 witness: the code `raise ValueError('boom')` was executed by each of
\* the two classes.
C15_Witness ==
    \E i, j \in 1..Len(xlog) :
        /\ xlog[i].code = <<LineRaise>>
        /\ xlog[j].code = <<LineRaise>>
        /\ xlog[i].agent = "SimpleCSVAgent"
        /\ xlog[j].agent = "CSVCodeReactAgent"
        /\ xlog[i].exec = "Exception"
        /\ xlog[j].exec = "Exception"
        /\ xlog[i].text # xlog[j].text

\* C16 (ExecSpec): generated code works on a copy made for the call: after
\* any sequence of calls self.df of each agent is the dataset as loaded, and
\* every call found the dataset as loaded under the name df.
C16_DatasetIsolated ==
    /\ \A agent \in Agents : df[agent] = Loaded
    /\ \A i \in 1..Len(xlog) : xlog[i].entry = Loaded

\* C16 witness: code that adds a column and drops a row was executed, it saw
\* its own changes, and a later call on the same agent reported the shape of
\* the dataset as loaded.
C16_Witness ==
    \E i, j \in 1..Len(xlog) :
        /\ i < j
        /\ xlog[i].agent = xlog[j].agent
        /\ xlog[i].code = <<LineAddColumn, LineDropRow, LineShape>>
        /\ xlog[i].kind = "return"
        /\ Contains(xlog[i].text, <<"(", "1", ",", " ", "3", ")">>)
        /\ xlog[j].code = <<LineShape, LineBlank>>
        /\ Contains(xlog[j].text, <<"(", "2", ",", " ", "2", ")">>)

\* C17 (ExecSpec): two calls of one agent with the same code return the same
\* text, whatever code was executed before or between them.
C17_ExecutorIdempotent ==
    \A i, j \in 1..Len(xlog) :
        (/\ i < j
         /\ xlog[i].agent = xlog[j].agent
         /\ xlog[i].code = xlog[j].code
         /\ xlog[i].kind = "return"
         /\ xlog[j].kind = "return") => xlog[i].text = xlog[j].text

\* C21 (ExecSpec): when exec of the code has completed, SimpleCSVAgent's
\* _execute_code returns by the first rule that applies: captured stderr as
\* "Error: ..." (even when stdout was written too), else captured stdout
\* trimmed, else, unless the final line starts with print, df.to_ or plt.,
\* the string form of the final line evaluated, else, or when that evaluation
\* fails, "Code executed successfully (no output)"; the final line is
\* evaluated only when rule 3 is reached.
C21_FirstApplicableRule ==
    \A i \in 1..Len(xlog) :
        (xlog[i].agent = "SimpleCSVAgent" /\ xlog[i].exec = "none") =>
            LET x == xlog[i]
                last == x.code[CHOOSE k \in 1..Len(x.code) :
                                 /\ x.code[k] # <<>>
                                 /\ \A j \in k + 1..Len(x.code) : x.code[j] = <<>>]
                command == \/ StartsWith(last, <<"p", "r", "i", "n", "t">>)
                           \/ StartsWith(last, <<"d", "f", ".", "t", "o", "_">>)
                           \/ StartsWith(last, <<"p", "l", "t", ".">>)
            IN  /\ x.kind = "return"
                /\ x.text = (IF x.err # <<>> THEN <<"E", "r", "r", "o", "r", ":", " ">> \o x.err
                             ELSE IF x.out # <<>> THEN Strip(x.out)
                             ELSE IF command THEN NoOutput
                             ELSE IF x.eval = "none" THEN x.value
                             ELSE NoOutput)
                /\ x.evaluated <=> (x.err = <<>> /\ x.out = <<>> /\ ~command)

\* C21 witness: SimpleCSVAgent executed code that wrote to both stdout and
\* stderr, code whose final line is a df.to_ statement, and code whose final
\* line failed at its evaluation.
C21_Witness ==
    \E i, j, k \in 1..Len(xlog) :
        /\ xlog[j].agent = "SimpleCSVAgent"
        /\ xlog[j].code = <<LineToCsv>>
        /\ ~xlog[j].evaluated
        /\ xlog[j].text = NoOutput
        /\ xlog[k].agent = "SimpleCSVAgent"
        /\ xlog[k].evaluated
        /\ xlog[k].eval = "Exception"
        /\ xlog[k].text = NoOutput
        /\ xlog[i].agent = "SimpleCSVAgent"
        /\ xlog[i].exec = "none"
        /\ xlog[i].out # <<>>
        /\ xlog[i].err # <<>>
        /\ StartsWith(xlog[i].text, <<"E", "r", "r", "o", "r", ":", " ">>)

\* C22 (TranslateSpec): the code string the Translator returns holds no
\* code-fence marker, whatever the model output (no fence, a ```python
\* fence, a bare ``` fence, a fence with prose behind it).
C22_NoFenceInCode ==
    \A i \in 1..Len(tlog) : ~Contains(tlog[i].code, Fence)

\* C23 (GraphSpec): the reformulation prompt embeds the last last_n = 5
\* messages that precede the current question (all of them when there are
\* fewer), not the current question itself, and context_window is the number
\* of those messages.
C23_PromptHistoryWindow ==
    (/\ Ended
     /\ ran = <<"query_reformulation">>
     /\ gw # <<>>
     /\ gw[1].out.ok) =>
        LET msgs == state.messages
            before == SubSeq(msgs, 1, Len(msgs) - 1)
            k == IF Len(before) < 5 THEN Len(before) ELSE 5
            hist == SubSeq(before, Len(before) - k + 1, Len(before))
        IN  /\ gw[1].input.question = msgs[Len(msgs)].content
            /\ gw[1].input.context =
                  [i \in 1..k |->
                      [role |-> IF hist[i].type = "human" THEN "user" ELSE "assistant",
                       content |-> hist[i].content]]
            /\ result.kind = "return"
            /\ result.value.context_window = k

\* C24 (GraphSpec): get_chat_history(messages, last_k) with last_k > 0 returns
\* the last min(last_k, len(messages)) messages in their order, each tagged
\* "user" when it is a human message and "assistant" otherwise.
C24_LastKMessages ==
    (/\ Ended
     /\ ran = <<"get_chat_history">>
     /\ result.kind = "return"
     /\ result.value.last_k > 0) =>
        LET msgs == state.messages
            k == IF result.value.last_k < Len(msgs) THEN result.value.last_k ELSE Len(msgs)
            tail == SubSeq(msgs, Len(msgs) - k + 1, Len(msgs))
        IN  result.value.history =
                [i \in 1..k |->
                    [role |-> IF tail[i].type = "human" THEN "user" ELSE "assistant",
                     content |-> tail[i].content]]

\* C25 (GraphSpec): once the router has run in a graph invocation, the value
\* the conditional edge reads, state.get("next_node"), is one of the two keys
\* of the edge mapping, and the other fields of the state are as ask set
\* them.
C25_EdgeReadsRouterDecision ==
    (mode = "graph" /\ ran # <<>> /\ ran[1] = "router") =>
        /\ Selector(state) \in {"general_chat", "query_reformulation"}
        /\ Len(state.messages) = 1
        /\ state.reformulated_query = TxtEmpty
        /\ state.original_query = TxtEmpty
        /\ state.context_window = 0

\* C26 (ExecSpec): nothing that generated code changed in one call of
\* _execute_code is visible to the code of a later call: every call finds
\* the dataset as loaded under df and the pandas module as it was imported
\* under pd.
C26_NoLeakBetweenCalls ==
    \A i \in 1..Len(xlog) :
        /\ xlog[i].entry = Loaded
        /\ xlog[i].module = pandas

\* C27 (Spec): clear_session changes nothing but the registry entry of its
\* id: the records of the other sessions and the History Buffer stay as they
\* were; and the prompt of every post is built from the History Buffer as it
\* is, so the pairs of a cleared session that the buffer still holds are in
\* the prompt of the next post under the same id.
C27_ClearLeavesHistoryBuffer ==
    [][ /\ resp'.op = "clear_session" =>
              /\ history' = history
              /\ owner' = owner
              /\ \A x \in DOMAIN chat_sessions \ {resp'.sid} :
                    x \in DOMAIN chat_sessions' /\ chat_sessions'[x] = chat_sessions[x]
              /\ DOMAIN chat_sessions' \subseteq DOMAIN chat_sessions
        /\ resp'.op = "send_message" =>
              /\ resp'.ctxOwner = owner
              /\ IF history = <<>>
                 THEN resp'.prompt.context = <<<<"The conversation has just begun.", "">>>>
                 ELSE /\ Len(resp'.prompt.context) = 2 * Len(history)
                      /\ \A i \in 1..Len(history) :
                            /\ resp'.prompt.context[2 * i - 1] = <<"User", history[i][1]>>
                            /\ resp'.prompt.context[2 * i] = <<"AI", history[i][2]>>
      ]_vars

\* C27 witness: a post to a session that was cleared after an answered post:
\* its records hold this post alone, its prompt holds the earlier exchange.
C27_Witness ==
    /\ resp.op = "send_message"
    /\ resp.status = 200
    /\ chat_sessions[resp.sid] = <<Welcome, Record("user", resp.prompt.question), resp.body>>
    /\ resp.ctxOwner = <<resp.sid>>
    /\ resp.prompt.context = <<<<"User", asked[1][1]>>, <<"AI", asked[1][2]>>>>

\* C28 (Spec): a send_message whose backend call raises (no pair is appended)
\* answers status 500 and is not rolled back: the session, created with its
\* welcome record if it was absent, keeps the user record of the post as its
\* last record, the other sessions are untouched, and the History Buffer is
\* unchanged.
C28_FailedPostNotRolledBack ==
    [][ (resp'.op = "send_message" /\ asked' = asked) =>
            LET sid == resp'.sid
                old == IF sid \in DOMAIN chat_sessions THEN chat_sessions[sid]
                       ELSE <<Welcome>>
            IN  /\ resp'.status = 500
                /\ DOMAIN chat_sessions' = DOMAIN chat_sessions \cup {sid}
                /\ chat_sessions'[sid] =
                      Append(old, [type |-> "user", content |-> resp'.prompt.question])
                /\ \A x \in DOMAIN chat_sessions \ {sid} :
                      chat_sessions'[x] = chat_sessions[x]
                /\ history' = history
      ]_vars

\* C28 witness: a post failed in a session that had answered one before, and
\* the session ends with two user records around one bot record.
C28_Witness ==
    /\ resp.op = "send_message"
    /\ resp.status = 500
    /\ Len(chat_sessions[resp.sid]) = 4
    /\ chat_sessions[resp.sid][3].type = "bot"
    /\ chat_sessions[resp.sid][4] = [type |-> "user", content |-> resp.prompt.question]
    /\ Len(history) = 1

\* C29 (Spec): in every reachable state the records of each session start
\* with the welcome bot record and hold no other, every later bot record
\* comes right after the user record whose question it answers, and after a
\* successful send_message the record it returned is a bot record and the
\* last record of its session.
C29_RecordStructure ==
    /\ \A sid \in DOMAIN chat_sessions :
          LET records == chat_sessions[sid]
          IN  /\ Len(records) >= 1
              /\ records[1] = [type |-> "bot", content |-> WelcomeText]
              /\ \A i \in 2..Len(records) :
                    /\ records[i] # records[1]
                    /\ records[i].type \in {"user", "bot"}
                    /\ records[i].type = "bot" =>
                          /\ i >= 3
                          /\ records[i - 1].type = "user"
                          /\ \E k \in 1..Len(asked) :
                                asked[k] = <<records[i - 1].content, records[i].content>>
    /\ (resp.op = "send_message" /\ resp.status = 200) =>
          /\ resp.body.type = "bot"
          /\ resp.sid \in DOMAIN chat_sessions
          /\ chat_sessions[resp.sid][Len(chat_sessions[resp.sid])] = resp.body

\* C29 witness: a session holds two answered exchanges after its welcome
\* record, the second just returned.
C29_Witness ==
    /\ resp.op = "send_message"
    /\ resp.status = 200
    /\ Len(chat_sessions[resp.sid]) = 5
    /\ chat_sessions[resp.sid][3].type = "bot"
    /\ chat_sessions[resp.sid][5] = resp.body

====
